---- MODULE Spec2Model ----
(***************************************************************************)
(* MeetPointTurs: the meeting-time banner (MeetingBanner.tsx), its time    *)
(* formatter and the page bootstrap.                                       *)
(*                                                                         *)
(* JavaScript values are modelled as follows.                              *)
(*   - a props/options object is a function from the names of the fields   *)
(*     that were supplied to their values; an omitted field is not in the  *)
(*     DOMAIN (it reads as undefined);                                     *)
(*   - strings are TLA+ strings, handled character by character with Len,  *)
(*     SubSeq and \o;                                                      *)
(*   - a meetingDate value is a tagged record: a number (milliseconds      *)
(*     since the epoch, or NaN), a string, or a Date object.               *)
(***************************************************************************)
EXTENDS Integers, Sequences, FiniteSets, TLC

VARIABLES
    props,          \* the banner configuration (MeetingBannerProps)
    hasGeolocation, \* 'geolocation' in navigator
    lang,           \* useState<'es' | 'en'>
    memo,           \* the two useMemo cells (defaultPolicyEn / defaultPolicyEs)
    view,           \* the committed render output
    trail,          \* the views that were on screen before the latest toggles
    clicks,         \* number of clicks of the "Start route" button so far
    queries,        \* getCurrentPosition calls: click number -> outcome
    opened,         \* window.open calls: click number -> sequence of calls
    rootEl,         \* does document.getElementById('root') find an element
    boot,           \* position of the entry script
    renderCalls,    \* number of createRoot(rootEl).render(...) calls
    fmtOpts,        \* argument of a direct formatMeetingTime call
    fmtResult       \* its completion

vars == <<props, hasGeolocation, lang, memo, view, trail, clicks, queries,
          opened, rootEl, boot, renderCalls, fmtOpts, fmtResult>>

bannerVars == <<props, hasGeolocation, lang, memo, view, trail, clicks,
                queries, opened>>
bootVars == <<rootEl, boot, renderCalls>>
fmtVars == <<fmtOpts, fmtResult>>

----------------------------------------------------------------------------
(* Bounds *)

MaxClicks == 2

----------------------------------------------------------------------------
(* JavaScript helpers *)

EmptyObject == [f \in {} |-> ""]

Has(obj, field) == field \in DOMAIN obj

UpperLetters ==
    {"A", "B", "C", "D", "E", "F", "G", "H", "I", "J", "K", "L", "M",
     "N", "O", "P", "Q", "R", "S", "T", "U", "V", "W", "X", "Y", "Z"}
LowerLetters ==
    {"a", "b", "c", "d", "e", "f", "g", "h", "i", "j", "k", "l", "m",
     "n", "o", "p", "q", "r", "s", "t", "u", "v", "w", "x", "y", "z"}

\* the lower-case form of each upper-case letter
LowerOf ==
    [A |-> "a", B |-> "b", C |-> "c", D |-> "d", E |-> "e", F |-> "f", G |-> "g",
     H |-> "h", I |-> "i", J |-> "j", K |-> "k", L |-> "l", M |-> "m", N |-> "n",
     O |-> "o", P |-> "p", Q |-> "q", R |-> "r", S |-> "s", T |-> "t", U |-> "u",
     V |-> "v", W |-> "w", X |-> "x", Y |-> "y", Z |-> "z"]

CharAt(s, i) == SubSeq(s, i, i)

IsUpper(c) == c \in UpperLetters
IsLower(c) == c \in LowerLetters
IsAlpha(c) == IsUpper(c) \/ IsLower(c)

LowerChar(c) == IF IsUpper(c) THEN LowerOf[c] ELSE c

RECURSIVE toLowerCase(_)
toLowerCase(s) ==
    IF s = "" THEN "" ELSE LowerChar(Head(s)) \o toLowerCase(Tail(s))

startsWith(s, prefix) ==
    /\ Len(s) >= Len(prefix)
    /\ SubSeq(s, 1, Len(prefix)) = prefix

\* s contains sub as a substring
includes(s, sub) ==
    \E i \in 1..(Len(s) - Len(sub) + 1) : SubSeq(s, i, i + Len(sub) - 1) = sub

\* JavaScript truthiness of a string
TruthyString(s) == s # ""

\* `obj.field || fallback` for a string field
OrElse(obj, field, fallback) ==
    IF Has(obj, field) /\ TruthyString(obj[field]) THEN obj[field] ELSE fallback

----------------------------------------------------------------------------
(* meetingDate values: Date | string | number *)

NaN == [type |-> "NaN"]
Num(n) == [type |-> "number", value |-> n]
Str(s) == [type |-> "string", value |-> s]
DateObj(t) == [type |-> "Date", time |-> t]

\* JavaScript truthiness of a meetingDate value: 0, NaN and "" are falsy,
\* every object (a Date, even an invalid one) is truthy.
TruthyDate(v) ==
    CASE v.type = "NaN" -> FALSE
      [] v.type = "number" -> v.value # 0
      [] v.type = "string" -> v.value # ""
      [] v.type = "Date" -> TRUE

\* Date.parse on the strings of the model: ISO timestamps parse, the rest
\* is an Invalid Date.
DateParse(s) ==
    CASE s = "1970-01-01T17:30:00Z" -> Num(63000000)
      [] s = "1970-01-01T00:05:00Z" -> Num(300000)
      [] OTHER -> NaN

\* new Date(value) for a number or a string
NewDate(v) ==
    IF v.type = "string" THEN DateObj(DateParse(v.value)) ELSE DateObj(v)

----------------------------------------------------------------------------
(* Intl.DateTimeFormat, for tags of the form language[-region] and the     *)
(* options { hour: 'numeric', minute: '2-digit', hour12, timeZone }.       *)

RuntimeLocale == "en-US"
RuntimeTimeZone == "UTC"

\* the language subtag: everything before the first "-"
RECURSIVE LanguageOf(_)
LanguageOf(tag) ==
    IF tag = "" \/ Head(tag) = "-" THEN "" ELSE Head(tag) \o LanguageOf(Tail(tag))

AllAlpha(s) == \A i \in 1..Len(s) : IsAlpha(CharAt(s, i))

\* structurally valid language tag; anything else makes the constructor
\* throw a RangeError
IsValidLocale(tag) ==
    LET language == LanguageOf(tag)
        rest == SubSeq(tag, Len(language) + 1, Len(tag))
    IN  /\ Len(language) \in 2..3
        /\ AllAlpha(language)
        /\ \/ rest = ""
           \/ /\ Len(rest) = 3
              /\ Head(rest) = "-"
              /\ AllAlpha(Tail(rest))

SupportedLanguages == {"en", "es", "fr"}

\* locale negotiation: an unsupported language falls back to the runtime's
ResolveLocale(tag) ==
    IF toLowerCase(LanguageOf(tag)) \in SupportedLanguages
    THEN toLowerCase(tag) ELSE toLowerCase(RuntimeLocale)

\* UTC offset in minutes of the time zones the runtime knows (no DST)
TimeZoneOffset ==
    [UTC |-> 0, America_Costa_Rica |-> 0 - 360, Asia_Tokyo |-> 540]

ZoneKey(tz) ==
    CASE tz = "UTC" -> "UTC"
      [] tz = "America/Costa_Rica" -> "America_Costa_Rica"
      [] tz = "Asia/Tokyo" -> "Asia_Tokyo"
      [] OTHER -> ""

IsValidTimeZone(tz) == ZoneKey(tz) # ""

\* does the resolved locale use a 12-hour clock by default
LocaleHour12(resolved) ==
    \/ LanguageOf(resolved) = "en"
    \/ resolved = "es-mx"

DayPeriod(resolved, isPm) ==
    IF LanguageOf(resolved) = "es"
    THEN (IF isPm THEN "p. m." ELSE "a. m.")
    ELSE (IF isPm THEN "PM" ELSE "AM")

TwoDigit(n) == IF n < 10 THEN "0" \o ToString(n) ELSE ToString(n)

\* new Intl.DateTimeFormat(locales, options): a formatter or a RangeError.
\* locales and the two options are option objects' fields: absent = undefined.
DateTimeFormat(o) ==
    IF Has(o, "locales") /\ ~IsValidLocale(o.locales)
    THEN [ok |-> FALSE, error |-> "RangeError"]
    ELSE IF Has(o, "timeZone") /\ ~IsValidTimeZone(o.timeZone)
    THEN [ok |-> FALSE, error |-> "RangeError"]
    ELSE LET resolved == ResolveLocale(IF Has(o, "locales") THEN o.locales
                                       ELSE RuntimeLocale)
         IN  [ok |-> TRUE,
              locale |-> resolved,
              hour12 |-> IF Has(o, "hour12") THEN o.hour12
                         ELSE LocaleHour12(resolved),
              offset |-> TimeZoneOffset[ZoneKey(IF Has(o, "timeZone")
                                                THEN o.timeZone
                                                ELSE RuntimeTimeZone)]]

\* formatter.format(date): a string or a RangeError (Invalid Date)
Format(formatter, date) ==
    IF date.time.type = "NaN"
    THEN [ok |-> FALSE, error |-> "RangeError"]
    ELSE LET minutes == ((date.time.value \div 60000) + formatter.offset) % 1440
             h == minutes \div 60
             m == minutes % 60
         IN  [ok |-> TRUE,
              value |->
                IF formatter.hour12
                THEN ToString(IF h % 12 = 0 THEN 12 ELSE h % 12) \o ":"
                     \o TwoDigit(m) \o " "
                     \o DayPeriod(formatter.locale, h >= 12)
                ELSE ToString(h) \o ":" \o TwoDigit(m)]

----------------------------------------------------------------------------
(* formatMeetingTime *)

DefaultTime == "5:30 PM"

\* the options object handed to Intl.DateTimeFormat: `locale || undefined`,
\* and hour12 / timeZone passed through (undefined when not supplied)
IntlOptions(opts) ==
    (IF Has(opts, "locale") /\ TruthyString(opts.locale)
     THEN "locales" :> opts.locale ELSE EmptyObject)
    @@ (IF Has(opts, "hour12") THEN "hour12" :> opts.hour12 ELSE EmptyObject)
    @@ (IF Has(opts, "timeZone") THEN "timeZone" :> opts.timeZone
        ELSE EmptyObject)

\* the try block: construct the formatter and format; a RangeError from
\* either step reaches the catch clause
TryFormat(opts, date) ==
    LET formatter == DateTimeFormat(IntlOptions(opts))
    IN  IF ~formatter.ok THEN formatter ELSE Format(formatter, date)

\* a variant that looks at the date before the text
formatMeetingTime_dateFirst(opts) ==
    IF Has(opts, "meetingDate") /\ TruthyDate(opts.meetingDate)
    THEN LET date == IF opts.meetingDate.type = "Date" THEN opts.meetingDate
                     ELSE NewDate(opts.meetingDate)
             attempt == TryFormat(opts, date)
         IN  IF attempt.ok
             THEN [kind |-> "return", value |-> attempt.value]
             ELSE [kind |-> "return", value |-> DefaultTime]
    ELSE IF Has(opts, "meetingTimeText") /\ TruthyString(opts.meetingTimeText)
    THEN [kind |-> "return", value |-> opts.meetingTimeText]
    ELSE [kind |-> "return", value |-> DefaultTime]

\* the completion of a call: [kind |-> "return", value |-> string] or
\* [kind |-> "throw", ...]
formatMeetingTime(opts) ==
    IF Has(opts, "meetingTimeText") /\ TruthyString(opts.meetingTimeText)
    THEN [kind |-> "return", value |-> opts.meetingTimeText]
    ELSE IF ~(Has(opts, "meetingDate") /\ TruthyDate(opts.meetingDate))
    THEN [kind |-> "return", value |-> DefaultTime]
    ELSE LET date == IF opts.meetingDate.type = "Date" THEN opts.meetingDate
                     ELSE NewDate(opts.meetingDate)
             attempt == TryFormat(opts, date)
         IN  IF attempt.ok
             THEN [kind |-> "return", value |-> attempt.value]
             ELSE [kind |-> "return", value |-> DefaultTime]

----------------------------------------------------------------------------
(* encodeURIComponent *)

Digits == {"0", "1", "2", "3", "4", "5", "6", "7", "8", "9"}
UnreservedMarks == {"-", "_", ".", "!", "~", "*", "'", "(", ")"}

IsUnreserved(c) == IsAlpha(c) \/ c \in Digits \/ c \in UnreservedMarks

\* the UTF-8 percent escapes of the reserved characters of the model
PercentEscape(c) ==
    CASE c = " " -> "%20"
      [] c = "," -> "%2C"
      [] c = "/" -> "%2F"
      [] c = "&" -> "%26"
      [] c = "=" -> "%3D"
      [] c = "+" -> "%2B"
      [] c = "é" -> "%C3%A9"
      [] c = "ú" -> "%C3%BA"

RECURSIVE encodeURIComponent(_)
encodeURIComponent(s) ==
    IF s = "" THEN ""
    ELSE (IF IsUnreserved(Head(s)) THEN Head(s) ELSE PercentEscape(Head(s)))
         \o encodeURIComponent(Tail(s))

----------------------------------------------------------------------------
(* MeetingBanner: defaults of the destructured props *)

DefaultOrigin == "Corcovado Hiking Tours, Puerto Jiménez, Puntarenas, Costa Rica"
DefaultDestination == "Muelle Público, Puerto Jiménez, Puntarenas, Costa Rica"

\* `field = value` in the parameter list: the default applies to undefined
WithDefault(p, field, value) == IF Has(p, field) THEN p[field] ELSE value

origin(p) == WithDefault(p, "origin", DefaultOrigin)
destination(p) == WithDefault(p, "destination", DefaultDestination)
openInNewTab(p) == WithDefault(p, "openInNewTab", TRUE)
showLanguageToggle(p) == WithDefault(p, "showLanguageToggle", TRUE)
showMap(p) == WithDefault(p, "showMap", TRUE)

----------------------------------------------------------------------------
(* MeetingBanner: one render *)

\* a variant that compares the prefix without lower-casing the locale
InitialLang_caseSensitive(p) ==
    IF startsWith(OrElse(p, "locale", ""), "es") THEN "es" ELSE "en"

\* the useState initializer
InitialLang(p) ==
    LET l == toLowerCase(OrElse(p, "locale", ""))
    IN  IF startsWith(l, "es") THEN "es" ELSE "en"

effectiveLocale(p, lg) ==
    IF lg = "es" THEN "es-ES" ELSE OrElse(p, "locale", "en-US")

\* the object literal passed to formatMeetingTime; a field whose prop is
\* undefined reads as undefined in the formatter too
FormatterArgs(p, lg) ==
    ("locale" :> effectiveLocale(p, lg))
    @@ [f \in DOMAIN p \cap {"meetingTimeText", "meetingDate", "timeZone",
                             "hour12"} |-> p[f]]

timeString(p, lg) == formatMeetingTime(FormatterArgs(p, lg)).value

title(p, lg) ==
    OrElse(p, "titleText", IF lg = "es" THEN "Hora de encuentro" ELSE "Meeting Time")

ctaLabel(p, lg) ==
    OrElse(p, "locationCtaLabel", IF lg = "es" THEN "Ver ubicación" ELSE "View location")

defaultPolicyEn(ts) ==
    << "Please arrive at the designated meeting point by " \o ts \o ".",
       "Guests who do not arrive on time will forfeit the tour and all associated rights.",
       "Late arrivals are not eligible for refunds or claims." >>

\* a variant whose first line leaves the time out
defaultPolicyEs_noTime(ts) ==
    << "Por favor, llegue al punto de encuentro a tiempo.",
       "Los clientes que no lleguen a tiempo perderán el tour y los derechos asociados.",
       "Los retrasos no son reembolsables ni reclamables." >>

defaultPolicyEs(ts) ==
    << "Por favor, llegue al punto de encuentro a las " \o ts \o ".",
       "Los clientes que no lleguen a tiempo perderán el tour y los derechos asociados.",
       "Los retrasos no son reembolsables ni reclamables." >>

\* useMemo(factory, [dep]): on mount (no cell yet) and whenever the
\* dependency differs from the stored one the factory runs again
NoCell == [mounted |-> FALSE]
useMemo(cell, value, dep) ==
    IF cell.mounted /\ cell.deps = dep THEN cell
    ELSE [mounted |-> TRUE, deps |-> dep, value |-> value]

NoMemo == [defaultPolicyEn |-> NoCell, defaultPolicyEs |-> NoCell]

\* the two hook calls of a render, in source order
RenderMemo(old, p, lg) ==
    [defaultPolicyEn |->
        useMemo(old.defaultPolicyEn, defaultPolicyEn(timeString(p, lg)),
                timeString(p, lg)),
     defaultPolicyEs |->
        useMemo(old.defaultPolicyEs, defaultPolicyEs(timeString(p, lg)),
                timeString(p, lg))]

\* a variant in which the Spanish render ignores the supplied lines
policy_esIgnoresOverride(p, lg, m) ==
    IF lg = "es" THEN m.defaultPolicyEs.value
    ELSE IF Has(p, "policyLines") /\ Len(p.policyLines) > 0
    THEN p.policyLines
    ELSE m.defaultPolicyEn.value

policy(p, lg, m) ==
    IF Has(p, "policyLines") /\ Len(p.policyLines) > 0
    THEN p.policyLines
    ELSE IF lg = "es" THEN m.defaultPolicyEs.value ELSE m.defaultPolicyEn.value

EmbedSrc(p) ==
    "https://www.google.com/maps/embed/v1/directions?key="
    \o encodeURIComponent(p.googleMapsApiKey)
    \o "&origin=" \o encodeURIComponent(origin(p))
    \o "&destination=" \o encodeURIComponent(destination(p))
    \o "&mode=walking"

RouteHref(p) ==
    "https://www.google.com/maps/dir/?api=1&origin="
    \o encodeURIComponent(origin(p))
    \o "&destination=" \o encodeURIComponent(destination(p))
    \o "&travelmode=walking"

\* a variant that tests the key with `!== undefined` instead of truthiness
MapSection_keyDefined(p, lg) ==
    IF ~showMap(p) THEN {}
    ELSE IF Has(p, "googleMapsApiKey")
    THEN {[tag |-> "iframe", src |-> EmbedSrc(p)]}
    ELSE {[tag |-> "a",
           href |-> RouteHref(p),
           target |-> IF openInNewTab(p) THEN "_blank" ELSE "undefined",
           text |-> IF lg = "es"
                    THEN "Ver ruta desde Corcovado Hiking Tours en Google Maps"
                    ELSE "View route from Corcovado Hiking Tours in Google Maps"]}

\* the "Google Maps route" block: the elements it puts in the output
MapSection(p, lg) ==
    IF ~showMap(p) THEN {}
    ELSE IF Has(p, "googleMapsApiKey") /\ TruthyString(p.googleMapsApiKey)
    THEN {[tag |-> "iframe", src |-> EmbedSrc(p)]}
    ELSE {[tag |-> "a",
           href |-> RouteHref(p),
           target |-> IF openInNewTab(p) THEN "_blank" ELSE "undefined",
           text |-> IF lg = "es"
                    THEN "Ver ruta desde Corcovado Hiking Tours en Google Maps"
                    ELSE "View route from Corcovado Hiking Tours in Google Maps"]}

\* the language toggle button, when it is rendered
ToggleSection(p, lg) ==
    IF showLanguageToggle(p)
    THEN {[tag |-> "button",
           ariaLabel |-> IF lg = "es" THEN "Cambiar a inglés" ELSE "Switch to Spanish",
           text |-> IF lg = "es" THEN "ES Español" ELSE "EN English"]}
    ELSE {}

\* the text and elements of the returned markup; ctaLabel is computed by
\* the render although no element shows it
Render(p, lg, m) ==
    [title |-> title(p, lg),
     timeString |-> timeString(p, lg),
     heading |-> title(p, lg) \o ": " \o timeString(p, lg),
     ctaLabel |-> ctaLabel(p, lg),
     policy |-> policy(p, lg, m),
     map |-> MapSection(p, lg),
     routeButton |-> IF lg = "es" THEN "Iniciar ruta" ELSE "Start route",
     toggle |-> ToggleSection(p, lg)]

----------------------------------------------------------------------------
(* The configurations and inputs of the bounded model *)

\* a field that is either omitted or has one of the values
Opt(field, values) == {EmptyObject} \cup {field :> v : v \in values}

Locales == {"", "es-ES", "ES-mx", "Es", "es", "en-US", "e", "fr"}

\* texts: language, overrides of title, CTA label and policy, the toggle flag
TextConfigs ==
    {a @@ b @@ c @@ d @@ e @@ f :
        a \in {"meetingTimeText" :> "5:30 PM"},
        b \in Opt("locale", Locales),
        c \in Opt("titleText", {"Tour start"}),
        d \in Opt("locationCtaLabel", {"Open map"}),
        e \in Opt("policyLines", {<<>>, <<"Be on time.", "No refunds.">>}),
        f \in Opt("showLanguageToggle", {FALSE})}

\* the time shown: text or date, with locale, time zone and hour cycle
TimeConfigs ==
    {a @@ b @@ c @@ d @@ e :
        a \in Opt("meetingTimeText", {""}),
        b \in Opt("meetingDate", {Num(0), Num(63000000)}),
        c \in Opt("locale", {"es-ES", "e"}),
        d \in Opt("timeZone", {"America/Costa_Rica"}),
        e \in Opt("hour12", {TRUE})}

\* the map block and the route links
MapConfigs ==
    {a @@ b @@ c @@ d @@ e :
        a \in Opt("googleMapsApiKey", {"", "AIza-demo_key"}),
        b \in Opt("showMap", {FALSE}),
        c \in Opt("openInNewTab", {FALSE}),
        d \in Opt("destination", {"Pier 1, Golfito"}),
        e \in Opt("locale", {"es-ES"})}

\* what the route button's links depend on
RouteConfigs ==
    {a @@ b @@ c :
        a \in Opt("destination", {"Pier 1, Golfito"}),
        b \in Opt("openInNewTab", {FALSE}),
        c \in Opt("showLanguageToggle", {FALSE})}

Configs == TextConfigs \cup TimeConfigs \cup MapConfigs \cup RouteConfigs

\* positions the geolocation API may report (whole degrees)
Positions == {[latitude |-> 9, longitude |-> 0 - 83],
              [latitude |-> 0, longitude |-> 0]}

FormatterInputs ==
    {a @@ b @@ c @@ d @@ e :
        a \in Opt("meetingTimeText", {"", "5:30 PM", "18:00"}),
        b \in Opt("meetingDate",
                  {Num(0), Num(63000000), NaN, Str(""),
                   Str("1970-01-01T00:05:00Z"), Str("mañana"),
                   DateObj(Num(0)), DateObj(NaN)}),
        c \in Opt("locale", {"", "en-US", "es-ES", "fr", "e", "xx_invalid"}),
        d \in Opt("timeZone", {"UTC", "Asia/Tokyo", "Mars/Phobos"}),
        e \in Opt("hour12", {TRUE, FALSE})}

----------------------------------------------------------------------------
(* State of a page on which nothing is mounted, and of an idle formatter *)

NoLang == ""
NoView == EmptyObject
NotCalled == [kind |-> "none"]

Unmounted ==
    /\ props = EmptyObject
    /\ lang = NoLang
    /\ memo = NoMemo
    /\ view = NoView
    /\ trail = <<>>
    /\ clicks = 0
    /\ queries = <<>>
    /\ opened = <<>>

\* the first render of <MeetingBanner {...p} />
Mount(p) ==
    /\ props' = p
    /\ lang' = InitialLang(p)
    /\ memo' = RenderMemo(NoMemo, p, InitialLang(p))
    /\ view' = Render(p, InitialLang(p), RenderMemo(NoMemo, p, InitialLang(p)))
    /\ trail' = <<>>
    /\ clicks' = 0
    /\ queries' = <<>>
    /\ opened' = <<>>

----------------------------------------------------------------------------
(* The banner, mounted by a page with some configuration *)

Init ==
    /\ props \in Configs
    /\ hasGeolocation \in BOOLEAN
    /\ lang = InitialLang(props)
    /\ memo = RenderMemo(NoMemo, props, lang)
    /\ view = Render(props, lang, memo)
    /\ trail = <<>>
    /\ clicks = 0
    /\ queries = <<>>
    /\ opened = <<>>
    /\ rootEl = TRUE
    /\ boot = "rendered"
    /\ renderCalls = 1
    /\ fmtOpts = EmptyObject
    /\ fmtResult = NotCalled

\* a variant whose two branches give the same language
Flip_alwaysEn(prev) == IF prev = "es" THEN "en" ELSE "en"

\* setLang((prev) => (prev === 'es' ? 'en' : 'es'))
Flip(prev) == IF prev = "es" THEN "en" ELSE "es"

\* a variant whose handler is reachable although the button is not rendered
Toggle_unguarded ==
    /\ boot = "rendered"
    /\ lang' = Flip(lang)
    /\ memo' = RenderMemo(memo, props, lang')
    /\ view' = Render(props, lang', memo')
    /\ trail' = IF Len(trail) < 2 THEN Append(trail, view)
                ELSE <<trail[2], view>>
    /\ UNCHANGED <<props, hasGeolocation, clicks, queries, opened>>
    /\ UNCHANGED <<bootVars, fmtVars>>

\* click of the language button, and the re-render the state change causes
Toggle ==
    /\ boot = "rendered"
    /\ showLanguageToggle(props)
    /\ lang' = Flip(lang)
    /\ memo' = RenderMemo(memo, props, lang')
    /\ view' = Render(props, lang', memo')
    /\ trail' = IF Len(trail) < 2 THEN Append(trail, view)
                ELSE <<trail[2], view>>
    /\ UNCHANGED <<props, hasGeolocation, clicks, queries, opened>>
    /\ UNCHANGED <<bootVars, fmtVars>>

\* window.open(url, openInNewTab ? '_blank' : '_self')
WindowOpen(p, url) ==
    [url |-> url, target |-> IF openInNewTab(p) THEN "_blank" ELSE "_self"]

PositionUrl(p, coords) ==
    "https://www.google.com/maps/dir/?api=1&origin="
    \o ToString(coords.latitude) \o "," \o ToString(coords.longitude)
    \o "&destination=" \o encodeURIComponent(destination(p))
    \o "&travelmode=walking"

PlaceholderUrl(p) ==
    "https://www.google.com/maps/dir/?api=1&origin=Current+Location"
    \o "&destination=" \o encodeURIComponent(destination(p))
    \o "&travelmode=walking"

\* click of the "Start route" button
ClickRoute ==
    /\ boot = "rendered"
    /\ clicks < MaxClicks
    /\ clicks' = clicks + 1
    /\ IF hasGeolocation
       THEN /\ queries' = Append(queries, [status |-> "pending"])
            /\ opened' = Append(opened, <<>>)
       ELSE /\ queries' = Append(queries, [status |-> "unavailable"])
            /\ opened' = Append(opened, <<WindowOpen(props, PlaceholderUrl(props))>>)
    /\ UNCHANGED <<props, hasGeolocation, lang, memo, view, trail>>
    /\ UNCHANGED <<bootVars, fmtVars>>

\* the success callback of the i-th query
GeoSuccess(i, pos) ==
    /\ i \in 1..Len(queries)
    /\ queries[i].status = "pending"
    /\ queries' = [queries EXCEPT ![i] = [status |-> "success", coords |-> pos]]
    /\ opened' = [opened EXCEPT
                    ![i] = Append(@, WindowOpen(props, PositionUrl(props, pos)))]
    /\ UNCHANGED <<props, hasGeolocation, lang, memo, view, trail, clicks>>
    /\ UNCHANGED <<bootVars, fmtVars>>

\* a variant whose error callback opens nothing
GeoError_silent(i) ==
    /\ i \in 1..Len(queries)
    /\ queries[i].status = "pending"
    /\ queries' = [queries EXCEPT ![i] = [status |-> "error"]]
    /\ UNCHANGED opened
    /\ UNCHANGED <<props, hasGeolocation, lang, memo, view, trail, clicks>>
    /\ UNCHANGED <<bootVars, fmtVars>>

\* the error callback of the i-th query
GeoError(i) ==
    /\ i \in 1..Len(queries)
    /\ queries[i].status = "pending"
    /\ queries' = [queries EXCEPT ![i] = [status |-> "error"]]
    /\ opened' = [opened EXCEPT
                    ![i] = Append(@, WindowOpen(props, PlaceholderUrl(props)))]
    /\ UNCHANGED <<props, hasGeolocation, lang, memo, view, trail, clicks>>
    /\ UNCHANGED <<bootVars, fmtVars>>

Succeed == \E i \in 1..MaxClicks, pos \in Positions : GeoSuccess(i, pos)
Fail == \E i \in 1..MaxClicks : GeoError(i)

Next ==
    \/ Toggle
    \/ ClickRoute
    \/ Succeed
    \/ Fail

Spec == Init /\ [][Next]_vars

\* the same banner on the configurations of the route button; the platform
\* answers every position query (it calls one of the two callbacks)
InitRoute ==
    /\ Init
    /\ props \in RouteConfigs

SpecRoute ==
    /\ InitRoute
    /\ [][Next]_vars
    /\ \A i \in 1..MaxClicks :
          WF_vars((\E pos \in Positions : GeoSuccess(i, pos)) \/ GeoError(i))

----------------------------------------------------------------------------
(* The entry script *)

ExampleProps ==
    [meetingTimeText |-> "5:30 PM",
     locationLabel |-> "Designated Meeting Point",
     locationUrl |-> "https://maps.google.com/?q=Central%20Meeting%20Point",
     locale |-> "es-ES",
     brandName |-> "MeetPoint Tours",
     palette |-> "teal"]

InitBoot ==
    /\ Unmounted
    /\ hasGeolocation \in BOOLEAN
    /\ rootEl \in BOOLEAN
    /\ boot = "start"
    /\ renderCalls = 0
    /\ fmtOpts = EmptyObject
    /\ fmtResult = NotCalled

\* a variant without the `if (!rootEl) throw` guard
Bootstrap_noGuard ==
    /\ boot = "start"
    /\ boot' = "rendered"
    /\ renderCalls' = renderCalls + 1
    /\ Mount(ExampleProps)
    /\ UNCHANGED <<rootEl, hasGeolocation, fmtVars>>

\* getElementById, the guard, createRoot(rootEl).render(<MeetingBanner .../>)
Bootstrap ==
    /\ boot = "start"
    /\ IF ~rootEl
       THEN /\ boot' = "thrown"
            /\ UNCHANGED <<renderCalls, props, lang, memo, view, trail,
                           clicks, queries, opened>>
       ELSE /\ boot' = "rendered"
            /\ renderCalls' = renderCalls + 1
            /\ Mount(ExampleProps)
    /\ UNCHANGED <<rootEl, hasGeolocation, fmtVars>>

NextBoot ==
    \/ Bootstrap
    \/ Toggle
    \/ ClickRoute
    \/ Succeed
    \/ Fail

SpecBoot == InitBoot /\ [][NextBoot]_vars

----------------------------------------------------------------------------
(* Direct calls of the formatter *)

InitFmt ==
    /\ Unmounted
    /\ hasGeolocation = FALSE
    /\ rootEl = FALSE
    /\ boot = "none"
    /\ renderCalls = 0
    /\ fmtOpts \in FormatterInputs
    /\ fmtResult = NotCalled

CallFormat ==
    /\ boot = "none"
    /\ fmtResult = NotCalled
    /\ fmtResult' = formatMeetingTime(fmtOpts)
    /\ UNCHANGED <<fmtOpts, bannerVars, bootVars>>

NextFmt == CallFormat

SpecFmt == InitFmt /\ [][NextFmt]_vars

----------------------------------------------------------------------------
(* Properties of the banner's language and texts *)

\* [C1] After the language toggle has been activated twice, everything the
\* render shows (title, time string, CTA label, policy lines, and the rest
\* of the view) is exactly what was shown before those two toggles.
ToggleTwiceRestoresText ==
    Len(trail) = 2 => view = trail[1]

\* two toggles were made, and the text in between was different (the time
\* string included)
ToggleTwiceWitness ==
    /\ Len(trail) = 2
    /\ view = trail[1]
    /\ trail[2].heading # view.heading
    /\ trail[2].timeString # view.timeString
    /\ trail[2].policy # view.policy

\* [C10] The starting language is "es" exactly when the configured locale
\* begins with the letters e, s in either case, and "en" for every other
\* locale, an omitted or empty one included, whatever the other fields are.
StartingLanguage ==
    (boot = "rendered" /\ trail = <<>>) =>
        LET esPrefixed ==
                /\ Has(props, "locale")
                /\ Len(props.locale) >= 2
                /\ CharAt(props.locale, 1) \in {"e", "E"}
                /\ CharAt(props.locale, 2) \in {"s", "S"}
        IN  lang = IF esPrefixed THEN "es" ELSE "en"

StartingLanguageWitness ==
    /\ boot = "rendered"
    /\ trail = <<>>
    /\ Has(props, "locale")
    /\ props.locale = "ES-mx"
    /\ lang = "es"

\* [C9] The language is always "es" or "en"; a step that changes it is a
\* click of the (rendered) toggle, flips it to the other value and touches
\* no position query; position-query steps leave it alone; and without the
\* toggle control the language stays the starting language.
LanguageFrame ==
    /\ [](lang \in {"es", "en"})
    /\ [][lang' # lang =>
            /\ showLanguageToggle(props)
            /\ lang' = (IF lang = "es" THEN "en" ELSE "es")
            /\ <<clicks, queries, opened>>' = <<clicks, queries, opened>>]_vars
    /\ [][<<clicks, queries, opened>>' # <<clicks, queries, opened>>
            => lang' = lang]_vars
    /\ [](~showLanguageToggle(props) =>
            /\ trail = <<>>
            /\ lang = IF /\ Has(props, "locale")
                         /\ Len(props.locale) >= 2
                         /\ CharAt(props.locale, 1) \in {"e", "E"}
                         /\ CharAt(props.locale, 2) \in {"s", "S"}
                      THEN "es" ELSE "en")

\* toggles interleaved with a pending and a completed position query
LanguageFrameWitness ==
    /\ Len(queries) = 2
    /\ queries[1].status = "success"
    /\ queries[2].status = "pending"
    /\ Len(trail) >= 1
    /\ lang # InitialLang(props)

\* [C2] (as stated) With {meetingTimeText: "5:30 PM", locale: "es-ES"} the
\* first render has language "es", title "Hora de encuentro: 5:30 PM" and
\* three policy lines, each of which contains "5:30 PM".
ExampleScenarioEveryLine ==
    (/\ props = ("meetingTimeText" :> "5:30 PM") @@ ("locale" :> "es-ES")
     /\ trail = <<>>) =>
        /\ lang = "es"
        /\ view.heading = "Hora de encuentro: 5:30 PM"
        /\ Len(view.policy) = 3
        /\ \A i \in 1..Len(view.policy) : includes(view.policy[i], "5:30 PM")

\* [C2] (amended) With {meetingTimeText: "5:30 PM", locale: "es-ES"} the
\* first render has language "es", title "Hora de encuentro: 5:30 PM" and
\* exactly the three default Spanish policy lines, of which the first, and
\* only the first, contains "5:30 PM".
ExampleScenario ==
    (/\ props = ("meetingTimeText" :> "5:30 PM") @@ ("locale" :> "es-ES")
     /\ trail = <<>>) =>
        /\ lang = "es"
        /\ view.heading = "Hora de encuentro: 5:30 PM"
        /\ view.policy =
             << "Por favor, llegue al punto de encuentro a las 5:30 PM.",
                "Los clientes que no lleguen a tiempo perderán el tour y los derechos asociados.",
                "Los retrasos no son reembolsables ni reclamables." >>
        /\ includes(view.policy[1], "5:30 PM")
        /\ ~includes(view.policy[2], "5:30 PM")
        /\ ~includes(view.policy[3], "5:30 PM")

ExampleScenarioWitness ==
    /\ props = ("meetingTimeText" :> "5:30 PM") @@ ("locale" :> "es-ES")
    /\ trail = <<>>
    /\ boot = "rendered"
    /\ Len(view.policy) = 3

\* [C5] (as stated) Whenever a policyLines list is supplied, the empty list
\* included, the rendered policy lines are exactly that list and the
\* per-language default policies are not computed.
SuppliedPolicyNeverDefault ==
    (boot = "rendered" /\ Has(props, "policyLines")) =>
        /\ view.policy = props.policyLines
        /\ ~memo.defaultPolicyEn.mounted
        /\ ~memo.defaultPolicyEs.mounted

\* [C5] (amended) Whenever a non-empty policyLines list is supplied, in
\* every reachable state the rendered policy lines are exactly that list in
\* order and neither default policy is shown; the defaults are nevertheless
\* computed by the render.
SuppliedPolicyVerbatim ==
    (/\ boot = "rendered"
     /\ Has(props, "policyLines")
     /\ props.policyLines # <<>>) =>
        /\ view.policy = props.policyLines
        /\ view.policy # memo.defaultPolicyEn.value
        /\ view.policy # memo.defaultPolicyEs.value
        /\ memo.defaultPolicyEn.mounted
        /\ memo.defaultPolicyEs.mounted

SuppliedPolicyWitness ==
    /\ Has(props, "policyLines")
    /\ props.policyLines = <<"Be on time.", "No refunds.">>
    /\ Len(trail) = 2
    /\ view.policy = <<"Be on time.", "No refunds.">>

\* [C6] (as stated) Without a googleMapsApiKey (or with an empty one) the
\* output has the route link and no map frame, with one it has the map
\* frame and no route link; exactly one of the two, whatever showMap is.
ExactlyOneMapElement ==
    boot = "rendered" =>
        IF Has(props, "googleMapsApiKey") /\ props.googleMapsApiKey # ""
        THEN /\ \E el \in view.map : el.tag = "iframe"
             /\ \A el \in view.map : el.tag # "a"
        ELSE /\ \E el \in view.map : el.tag = "a"
             /\ \A el \in view.map : el.tag # "iframe"

\* [C6] (amended) When showMap is true (its default): without a
\* googleMapsApiKey (or with an empty one) the output has the route link
\* and no map frame, with one it has the map frame and no route link,
\* whatever the language. When showMap is false the output has neither.
MapElementFollowsKey ==
    boot = "rendered" =>
        IF Has(props, "showMap") /\ ~props.showMap
        THEN view.map = {}
        ELSE /\ Cardinality(view.map) = 1
             /\ IF Has(props, "googleMapsApiKey") /\ props.googleMapsApiKey # ""
                THEN \A el \in view.map : el.tag = "iframe"
                ELSE \A el \in view.map : el.tag = "a"

\* an empty key, the map block on, and the language toggled
MapElementWitness ==
    /\ Has(props, "googleMapsApiKey")
    /\ props.googleMapsApiKey = ""
    /\ ~Has(props, "showMap")
    /\ Len(trail) >= 1
    /\ \E el \in view.map : el.tag = "a"

----------------------------------------------------------------------------
(* Properties of the entry script *)

\* [C7] If the page has no element "root", the entry script throws before
\* any render call and the banner is never instantiated; if it has one, the
\* banner is rendered exactly once, with the fixed example configuration,
\* and nothing is thrown.
BootstrapContract ==
    /\ boot \in {"start", "thrown", "rendered"}
    /\ renderCalls = IF boot = "rendered" THEN 1 ELSE 0
    /\ boot = "thrown" => ~rootEl
    /\ boot = "rendered" => rootEl
    /\ boot # "rendered" => (props = EmptyObject /\ view = NoView /\ lang = NoLang)
    /\ boot = "rendered" =>
          /\ DOMAIN props = {"meetingTimeText", "locationLabel", "locationUrl",
                             "locale", "brandName", "palette"}
          /\ props.meetingTimeText = "5:30 PM"
          /\ props.locationLabel = "Designated Meeting Point"
          /\ props.locationUrl = "https://maps.google.com/?q=Central%20Meeting%20Point"
          /\ props.locale = "es-ES"
          /\ props.brandName = "MeetPoint Tours"
          /\ props.palette = "teal"
          /\ view # NoView

\* the script has run on a page without the element
BootstrapWitness ==
    /\ boot = "thrown"
    /\ ~rootEl
    /\ renderCalls = 0

----------------------------------------------------------------------------
(* Properties of the route button *)

----------------------------------------------------------------------------
(* Properties of the formatter *)

\* [C3] (as stated) For every supplied meetingTimeText, the empty string
\* included, and whatever the other options are, formatMeetingTime returns
\* the supplied text.
SuppliedTextReturned ==
    (fmtResult # NotCalled /\ Has(fmtOpts, "meetingTimeText")) =>
        fmtResult = [kind |-> "return", value |-> fmtOpts.meetingTimeText]

\* [C3] (amended) For every supplied non-empty meetingTimeText, and whatever
\* the other options are (valid or not), formatMeetingTime returns the
\* supplied text unchanged.
NonEmptyTextReturned ==
    (/\ fmtResult # NotCalled
     /\ Has(fmtOpts, "meetingTimeText")
     /\ fmtOpts.meetingTimeText # "") =>
        fmtResult = [kind |-> "return", value |-> fmtOpts.meetingTimeText]

\* a text other than the default, with a valid date and an invalid locale
\* and time zone
NonEmptyTextWitness ==
    /\ fmtResult = [kind |-> "return", value |-> "18:00"]
    /\ Has(fmtOpts, "meetingDate")
    /\ fmtOpts.meetingDate = Num(63000000)
    /\ Has(fmtOpts, "locale")
    /\ fmtOpts.locale = "xx_invalid"
    /\ Has(fmtOpts, "timeZone")
    /\ fmtOpts.timeZone = "Mars/Phobos"

\* [C4] Without a meetingTimeText, formatMeetingTime never throws; it
\* returns "5:30 PM" when the locale, the time zone or the date value is
\* invalid or when no date value is given; and a date value that is given
\* and valid (the timestamp 0 included), with a valid locale and time zone,
\* is formatted instead.
DefaultOnlyForAbsentOrInvalid ==
    (fmtResult # NotCalled /\ ~Has(fmtOpts, "meetingTimeText")) =>
        LET badLocale == /\ Has(fmtOpts, "locale")
                         /\ fmtOpts.locale # ""
                         /\ ~IsValidLocale(fmtOpts.locale)
            badZone == /\ Has(fmtOpts, "timeZone")
                       /\ ~IsValidTimeZone(fmtOpts.timeZone)
            given == Has(fmtOpts, "meetingDate")
            date == IF fmtOpts.meetingDate.type = "Date" THEN fmtOpts.meetingDate
                    ELSE NewDate(fmtOpts.meetingDate)
            badDate == given /\ date.time.type = "NaN"
        IN  /\ fmtResult.kind = "return"
            /\ (badLocale \/ badZone \/ badDate \/ ~given) =>
                    fmtResult.value = "5:30 PM"
            /\ (given /\ ~badLocale /\ ~badZone /\ ~badDate) =>
                    fmtResult.value =
                        Format(DateTimeFormat(IntlOptions(fmtOpts)), date).value

====
